---- MODULE Spec2Model ----
(***************************************************************************)
(* Model of the Telegram academic bot (Nexusdemics): the per-chat session  *)
(* kept by the telegraf session middleware and the handlers of the bot     *)
(* (commands, text, photo, voice, callback queries), including the source  *)
(* search and the draft pipeline started by 'confirm_and_process'.         *)
(*                                                                         *)
(* Every handler is an async function.  It runs without interruption up to *)
(* its first awaited adapter call; the part after the await runs later, as *)
(* a separate step, and handlers of other updates may run in between.  A   *)
(* handler suspended on an await is a record of the set inflight.          *)
(*                                                                         *)
(* Updates of one chat that arrive in one getUpdates batch are handled     *)
(* concurrently (telegraf ^4.16.3, README.md:163), and the session         *)
(* middleware hands the handlers of one chat the same session object.      *)
(*                                                                         *)
(* Session fields are stored modulo the coercions their readers apply      *)
(* (x || [], x || false, truthiness tests): an absent field is stored as   *)
(* the default the middleware or the reader substitutes for it.            *)
(***************************************************************************)
EXTENDS Integers, Sequences, FiniteSets, Bags, TLC

\* ------------------------------------------------------------------ bounds
MaxInFlight == 2     \* handlers suspended on an adapter call at one time
MaxWorkflows == 1    \* confirm workflows among them
MaxFrags == 2        \* fragments pushed to session.messages
MaxApproved == 3     \* length of session.approvedSources
MaxRewrites == 3     \* depth of the processDraft recursion explored
NumSources == 2      \* distinct source records the search adapter returns
MaxListLen == 3      \* length of a list handed to a utility function
MaxCalls == 3        \* calls of updateHistory in one run
MaxHistory == 11     \* entries of a stored history that is read
MaxRaw == 11         \* papers of a long Semantic Scholar response

\* --------------------------------------------------------- program constants
PlagiarismThreshold == 10   \* percent; plagiarismScore > 0.1

\* ------------------------------------------------------------- input domains
Chats == {"c1", "c2"}
TextBodies == {"a"}
UserTypes == {"student", "tutor", "guest"}
DraftIds == {"d1"}
Ratings == {2, 5}
SourceIds == 1..NumSources
\* values of parseInt(data.replace('approve_source_', '')); -1 stands for
\* every index that is negative or NaN, 7 for a stale keyboard's index
Indexes == {-1, 0, 1, 7}
\* originalityai scores the plagiarism adapter can return, in percent
AdapterScores == {10, 25}

\* source records as deduplicateSources sees them: doi "" stands for every
\* falsy doi (absent, null, empty); one title equals a doi
SourceRecords == [doi : {"", "10.1/x", "10.1/y"}, title : {"t", "10.1/x"}]

\* the lists of at most n elements of S
ListsUpTo(S, n) == UNION {[1..k -> S] : k \in 0..n}

\* what transcribeVoice returns: a transcription or an instructional message
Transcripts == {"v"}

\* a fragment of session.messages: the raw text, or the tagged adapter result
TextFrag(b) == <<"text", b>>
OcrFrag == <<"ocr", "o">>
VoiceFrag(t) == <<"voice", t>>
Frags == {TextFrag(b) : b \in TextBodies} \cup {OcrFrag}
            \cup {VoiceFrag(t) : t \in Transcripts}

VARIABLES
  chats,       \* the chats that send updates in this run
  session,     \* chat -> the session object of the session middleware
  inflight,    \* the handlers suspended on an awaited call
  lastUpdate,  \* chat -> the most recent update dispatched for the chat
  call,        \* the application of a utility function that is followed
  sheet        \* the rows of the spreadsheet that holds the histories

vars == <<chats, session, inflight, lastUpdate, call, sheet>>

\* ------------------------------------------------------------------ session
NoDraft == <<>>

DefaultSession ==
  [ messages |-> <<>>,
    isAggregating |-> FALSE,
    userType |-> "guest",
    approvedSources |-> <<>>,
    pendingSources |-> <<>>,
    \* TRUE when approvedSources and pendingSources are one array object
    sameArray |-> FALSE,
    waitingForRevision |-> FALSE,
    \* the draft id the comment is for; "" when not waiting
    waitingForComment |-> "",
    lastDraft |-> NoDraft ]

\* ctx.session = {}
EmptySession == DefaultSession

SetSession(c, s) == session' = [session EXCEPT ![c] = s]

\* ---------------------------------------------------------------- handlers
\* a suspended handler: where it is suspended and the locals that the rest of
\* the handler reads (a local that is only passed on to an adapter or a reply
\* is not kept).  Two handlers suspended at the same place with the same
\* locals are two copies of one record in the bag inflight.
NewHandler(c, kind, pc) ==
  [ chat |-> c, kind |-> kind, pc |-> pc,
    topic |-> <<>>, rewrites |-> 0, content |-> 0,
    draftId |-> "", rating |-> 0, score |-> 0 ]

Handlers == BagToSet(inflight)

CanSuspend == BagCardinality(inflight) < MaxInFlight

Suspend(h) == inflight' = inflight (+) SetToBag({h})
Resume(h, h2) == inflight' = (inflight (-) SetToBag({h})) (+) SetToBag({h2})
Finish(h) == inflight' = inflight (-) SetToBag({h})

\* the update at hand: its kind and the number its data carries, if any
Update(kind, arg) == [kind |-> kind, arg |-> arg]

Dispatched(c, kind, arg) ==
  lastUpdate' = [lastUpdate EXCEPT ![c] = Update(kind, arg)]

\* fragments that suspended photo and voice handlers of the chat will push
RECURSIVE SumCopies(_)
SumCopies(hs) ==
  IF hs = {} THEN 0
  ELSE LET h == CHOOSE x \in hs : TRUE
       IN CopiesIn(h, inflight) + SumCopies(hs \ {h})

PendingPushes(c) ==
  SumCopies({h \in Handlers : h.chat = c /\ h.kind \in {"photo", "voice"}})

\* an application of a utility function: the function, its argument as the
\* caller holds it, and the values returned so far
Call(fn, arg) == [fn |-> fn, arg |-> arg, out |-> <<>>]

NoCall == Call("none", <<>>)

\* the bot after construction, no chat served yet
BotInit ==
  /\ chats = {"c1"}
  /\ session = [c \in Chats |-> DefaultSession]
  /\ inflight = EmptyBag
  /\ lastUpdate = [c \in Chats |-> Update("none", 0)]
  /\ sheet = <<>>

Init ==
  /\ BotInit
  /\ call = NoCall

\* the bot serving two chats
TwoChatsInit ==
  /\ chats = Chats
  /\ session = [c \in Chats |-> DefaultSession]
  /\ inflight = EmptyBag
  /\ lastUpdate = [c \in Chats |-> Update("none", 0)]
  /\ call = NoCall
  /\ sheet = <<>>

\* ------------------------------------------------------------ bot.on('text')
\* the aggregation branch placed before the tests of the markers
TextAggregateFirst(c, body) ==
  LET s == session[c] IN
  /\ IF s.isAggregating
       THEN /\ Len(s.messages) + PendingPushes(c) < MaxFrags
            /\ SetSession(c, [s EXCEPT !.messages = Append(@, TextFrag(body))])
       ELSE SetSession(c, [s EXCEPT !.isAggregating = TRUE,
                                    !.messages = <<TextFrag(body)>>])
  /\ Dispatched(c, "text", 0)
  /\ UNCHANGED <<chats, call, sheet, inflight>>

\* aggregation branch: no waitingFor marker is set
TextAggregate(c, body) ==
  LET s == session[c] IN
  /\ ~s.waitingForRevision
  /\ s.waitingForComment = ""
  /\ IF s.isAggregating
       THEN /\ Len(s.messages) + PendingPushes(c) < MaxFrags
            /\ SetSession(c, [s EXCEPT !.messages = Append(@, TextFrag(body))])
       ELSE SetSession(c, [s EXCEPT !.isAggregating = TRUE,
                                    !.messages = <<TextFrag(body)>>])
  /\ Dispatched(c, "text", 0)
  /\ UNCHANGED <<chats, call, sheet, inflight>>

\* revision branch: awaits the reply and the Groq call
TextRevision(c, body) ==
  LET s == session[c] IN
  /\ s.waitingForRevision
  /\ CanSuspend
  /\ Suspend(NewHandler(c, "revision", "groq"))
  /\ Dispatched(c, "text", 0)
  /\ UNCHANGED <<chats, call, sheet, session>>

\* the revision handler ending with the marker left as it was
RevisionDoneKeepingMarker(h) ==
  /\ h \in Handlers /\ h.kind = "revision"
  /\ Finish(h)
  /\ UNCHANGED <<chats, call, sheet, session, lastUpdate>>

\* the Groq call returned or threw; both paths clear the marker
RevisionDone(h) ==
  /\ h \in Handlers /\ h.kind = "revision"
  /\ SetSession(h.chat, [session[h.chat] EXCEPT !.waitingForRevision = FALSE])
  /\ Finish(h)
  /\ UNCHANGED <<chats, call, sheet, lastUpdate>>

\* the reply before the try, or the reply of the catch, threw: the error goes
\* to bot.catch and the marker stays
RevisionAborted(h) ==
  /\ h \in Handlers /\ h.kind = "revision"
  /\ Finish(h)
  /\ UNCHANGED <<chats, call, sheet, session, lastUpdate>>

\* comment branch: awaits saveFeedback
TextComment(c, body) ==
  LET s == session[c] IN
  /\ ~s.waitingForRevision
  /\ s.waitingForComment # ""
  /\ CanSuspend
  /\ Suspend(NewHandler(c, "comment", "save"))
  /\ Dispatched(c, "text", 0)
  /\ UNCHANGED <<chats, call, sheet, session>>

CommentDone(h) ==
  /\ h \in Handlers /\ h.kind = "comment"
  /\ SetSession(h.chat, [session[h.chat] EXCEPT !.waitingForComment = ""])
  /\ Finish(h)
  /\ UNCHANGED <<chats, call, sheet, lastUpdate>>

\* the reply after saveFeedback threw: the marker is not deleted
CommentAborted(h) ==
  /\ h \in Handlers /\ h.kind = "comment"
  /\ Finish(h)
  /\ UNCHANGED <<chats, call, sheet, session, lastUpdate>>

\* ------------------------------------------------- bot.on('photo') / ('voice')
Photo(c) ==
  /\ CanSuspend
  /\ Len(session[c].messages) + PendingPushes(c) < MaxFrags
  /\ Suspend(NewHandler(c, "photo", "ocr"))
  /\ Dispatched(c, "photo", 0)
  /\ UNCHANGED <<chats, call, sheet, session>>

\* performOCR returned a text
PhotoDone(h) ==
  /\ h \in Handlers /\ h.kind = "photo"
  /\ SetSession(h.chat,
       [session[h.chat] EXCEPT !.messages = Append(@, OcrFrag)])
  /\ Finish(h)
  /\ UNCHANGED <<chats, call, sheet, lastUpdate>>

\* getFile threw, or both OCR providers threw: nothing is pushed
PhotoFailed(h) ==
  /\ h \in Handlers /\ h.kind = "photo"
  /\ Finish(h)
  /\ UNCHANGED <<chats, call, sheet, session, lastUpdate>>

Voice(c) ==
  /\ CanSuspend
  /\ Len(session[c].messages) + PendingPushes(c) < MaxFrags
  /\ Suspend(NewHandler(c, "voice", "transcribe"))
  /\ Dispatched(c, "voice", 0)
  /\ UNCHANGED <<chats, call, sheet, session>>

\* the transcription put in front of the fragments instead of behind them
VoiceDonePrepending(h, t) ==
  /\ h \in Handlers /\ h.kind = "voice"
  /\ SetSession(h.chat,
       [session[h.chat] EXCEPT !.messages = <<VoiceFrag(t)>> \o @])
  /\ Finish(h)
  /\ UNCHANGED <<chats, call, sheet, lastUpdate>>

\* transcribeVoice returned the transcription or its instructional message
VoiceDone(h, t) ==
  /\ h \in Handlers /\ h.kind = "voice"
  /\ SetSession(h.chat,
       [session[h.chat] EXCEPT !.messages = Append(@, VoiceFrag(t))])
  /\ Finish(h)
  /\ UNCHANGED <<chats, call, sheet, lastUpdate>>

\* ------------------------------------------------------- bot.command('cancel')
CancelCmd(c) ==
  /\ SetSession(c, [session[c] EXCEPT !.isAggregating = FALSE,
                                      !.messages = <<>>,
                                      !.waitingForRevision = FALSE,
                                      !.waitingForComment = "",
                                      !.pendingSources = <<>>,
                                      !.sameArray = FALSE])
  /\ Dispatched(c, "/cancel", 0)
  /\ UNCHANGED <<chats, call, sheet, inflight>>

\* --------------------------------------------------- bot.on('callback_query')
\* data.startsWith('type_')
CbType(c, ut) ==
  /\ SetSession(c, [session[c] EXCEPT !.userType = ut])
  /\ Dispatched(c, "type", 0)
  /\ UNCHANGED <<chats, call, sheet, inflight>>

\* data.startsWith('rate_'): awaits saveFeedback and the thank-you reply
CbRate(c, d, r) ==
  /\ CanSuspend
  /\ Suspend([NewHandler(c, "rate", "save") EXCEPT !.draftId = d, !.rating = r])
  /\ Dispatched(c, "rate", r)
  /\ UNCHANGED <<chats, call, sheet, session>>

RateDone(h) ==
  /\ h \in Handlers /\ h.kind = "rate"
  /\ IF h.rating <= 3
       THEN SetSession(h.chat,
              [session[h.chat] EXCEPT !.waitingForComment = h.draftId])
       ELSE UNCHANGED session
  /\ Finish(h)
  /\ UNCHANGED <<chats, call, sheet, lastUpdate>>

\* the thank-you reply threw: the outer catch answers, no marker is set
RateFailed(h) ==
  /\ h \in Handlers /\ h.kind = "rate"
  /\ Finish(h)
  /\ UNCHANGED <<chats, call, sheet, session, lastUpdate>>

\* data.startsWith('comment_')
CbComment(c, d) ==
  /\ SetSession(c, [session[c] EXCEPT !.waitingForComment = d])
  /\ Dispatched(c, "comment", 0)
  /\ UNCHANGED <<chats, call, sheet, inflight>>

\* data.startsWith('approve_source_')
HasIndex(list, i) == 0 <= i /\ i < Len(list)

PushApproved(s, src) ==
  IF s.sameArray
    THEN [s EXCEPT !.approvedSources = Append(@, src),
                   !.pendingSources = Append(@, src)]
    ELSE [s EXCEPT !.approvedSources = Append(@, src)]

\* the push without the test of source: undefined (0) is pushed
ApproveSourceUnchecked(s, i) ==
  PushApproved(s, IF HasIndex(s.pendingSources, i)
                    THEN s.pendingSources[i + 1] ELSE 0)

\* const source = pendingSources?.[index]; if (source) { push }
ApproveSource(s, i) ==
  IF HasIndex(s.pendingSources, i)
    THEN PushApproved(s, s.pendingSources[i + 1])
    ELSE s

CbApproveSource(c, i) ==
  /\ HasIndex(session[c].pendingSources, i)
       => Len(session[c].approvedSources) < MaxApproved
  /\ SetSession(c, ApproveSource(session[c], i))
  /\ Dispatched(c, "approve_source", i)
  /\ UNCHANGED <<chats, call, sheet, inflight>>

\* data === 'approve_all_sources': approvedSources becomes the pending array
\* itself (two empty arrays behave alike whether shared or not)
ApproveAll(s) ==
  [s EXCEPT !.approvedSources = s.pendingSources,
            !.sameArray = (s.pendingSources # <<>>)]

CbApproveAll(c) ==
  /\ SetSession(c, ApproveAll(session[c]))
  /\ Dispatched(c, "approve_all", 0)
  /\ UNCHANGED <<chats, call, sheet, inflight>>

\* data === 'cancel_sources'
CbCancelSources(c) ==
  /\ SetSession(c, [session[c] EXCEPT !.pendingSources = <<>>,
                                      !.sameArray = FALSE])
  /\ Dispatched(c, "cancel_sources", 0)
  /\ UNCHANGED <<chats, call, sheet, inflight>>

\* the cancel button resetting the sessions of all chats
CbCancelEveryone(c) ==
  /\ session' = [x \in Chats |-> EmptySession]
  /\ Dispatched(c, "cancel", 0)
  /\ UNCHANGED <<chats, call, sheet, inflight>>

\* data === 'cancel'
CbCancel(c) ==
  /\ SetSession(c, EmptySession)
  /\ Dispatched(c, "cancel", 0)
  /\ UNCHANGED <<chats, call, sheet, inflight>>

\* approve_draft, download_files, apply_revision, cancel_revision, add_more
\* and data that matches no branch: the session is only read
CbOther(c) ==
  /\ Dispatched(c, "callback", 0)
  /\ UNCHANGED <<chats, call, sheet, session, inflight>>

\* ------------------------------------------------------ processSources result
\* the lists processSources can return: deduplicated, so without repetition
RECURSIVE SeqsNoRep(_)
SeqsNoRep(S) ==
  {<<>>} \cup UNION {{<<x>> \o t : t \in SeqsNoRep(S \ {x})} : x \in S}

Batches == SeqsNoRep(SourceIds)

\* ------------------------------------------------------ bot.command('sources')
SourcesCmd(c) ==
  /\ CanSuspend
  /\ Suspend(NewHandler(c, "sources", "search"))
  /\ Dispatched(c, "/sources", 0)
  /\ UNCHANGED <<chats, call, sheet, session>>

RecordSources(s, batch) ==
  [s EXCEPT !.pendingSources = batch, !.sameArray = FALSE]

SourcesDone(h, batch) ==
  /\ h \in Handlers /\ h.kind = "sources"
  /\ IF batch = <<>>
       THEN UNCHANGED session
       ELSE SetSession(h.chat, RecordSources(session[h.chat], batch))
  /\ Finish(h)
  /\ UNCHANGED <<chats, call, sheet, lastUpdate>>

\* ------------------------------------------------------- bot.command('revise')
ReviseCmd(c) ==
  /\ SetSession(c, [session[c] EXCEPT !.waitingForRevision = TRUE])
  /\ Dispatched(c, "/revise", 0)
  /\ UNCHANGED <<chats, call, sheet, inflight>>

\* /start, /help, /status, /report, /files, /history: no session field written
InfoCmd(c) ==
  /\ Dispatched(c, "command", 0)
  /\ UNCHANGED <<chats, call, sheet, session, inflight>>

\* ------------------------------------------- callback 'confirm_and_process'
\* topic = ctx.session.messages.join(' '), kept as the list that is joined
Workflows == {h \in Handlers : h.kind = "confirm"}

\* the aggregated input emptied as soon as the button is pressed
CbConfirmClearing(c) ==
  /\ CanSuspend
  /\ SumCopies(Workflows) < MaxWorkflows
  /\ Suspend([NewHandler(c, "confirm", "search")
                EXCEPT !.topic = session[c].messages])
  /\ SetSession(c, [session[c] EXCEPT !.messages = <<>>])
  /\ Dispatched(c, "confirm", 0)
  /\ UNCHANGED <<chats, call, sheet>>

CbConfirm(c) ==
  /\ CanSuspend
  /\ SumCopies(Workflows) < MaxWorkflows
  /\ Suspend([NewHandler(c, "confirm", "search")
                EXCEPT !.topic = session[c].messages])
  /\ Dispatched(c, "confirm", 0)
  /\ UNCHANGED <<chats, call, sheet, session>>

\* processSources returned
ConfirmSearchDone(h, batch) ==
  /\ h \in Handlers /\ h.kind = "confirm" /\ h.pc = "search"
  /\ SetSession(h.chat, [session[h.chat] EXCEPT !.approvedSources = batch,
                                                !.sameArray = FALSE])
  /\ Resume(h, NewHandler(h.chat, "confirm",
                          IF batch = <<>> THEN "clear" ELSE "generate"))
  /\ UNCHANGED <<chats, call, sheet, lastUpdate>>

\* the content of the first call is kept when the draft is rewritten
GeneratedContentKeepFirst(h) == IF h.content = 0 THEN 1 ELSE h.content

\* processDraft: generateDraft returned the content of this call; a content
\* is named by the number of the generateDraft call that produced it
GeneratedContent(h) == h.content + 1

ConfirmGenerated(h) ==
  /\ h \in Handlers /\ h.kind = "confirm" /\ h.pc = "generate"
  /\ Resume(h, [h EXCEPT !.content = GeneratedContent(h),
                         !.pc = "plagiarism"])
  /\ UNCHANGED <<chats, call, sheet, session, lastUpdate>>

\* checkPlagiarism: resp is the adapter's score in percent, 0 when the
\* response carries no score, -1 when the request threw
\* the response that stands for a request that threw
RequestThrew == -1

\* a check that reports a failed or empty response as full plagiarism
CheckPlagiarismStrict(resp) == IF resp <= 0 THEN 100 ELSE resp

CheckPlagiarism(resp) == IF resp <= 0 THEN 0 ELSE resp

PlagiarismResponses == AdapterScores \cup {0, -1}

\* a gate that lets every score of the adapter pass
NeedsRewriteNever(score) == score > 100

NeedsRewrite(score) == score > PlagiarismThreshold

ConfirmPlagiarism(h, resp) ==
  LET score == CheckPlagiarism(resp) IN
  /\ h \in Handlers /\ h.kind = "confirm" /\ h.pc = "plagiarism"
  /\ IF NeedsRewrite(score)
       THEN /\ h.rewrites < MaxRewrites
            /\ Resume(h, [h EXCEPT !.rewrites = @ + 1, !.pc = "generate"])
       ELSE Resume(h, [h EXCEPT !.score = score, !.pc = "deliver"])
  /\ UNCHANGED <<chats, call, sheet, session, lastUpdate>>

\* document created and uploaded, summary and previews sent
DraftRecord(h) ==
  [content |-> h.content, rewrites |-> h.rewrites, plagiarismScore |-> h.score]

ConfirmDelivered(h) ==
  /\ h \in Handlers /\ h.kind = "confirm" /\ h.pc = "deliver"
  /\ SetSession(h.chat, [session[h.chat] EXCEPT !.lastDraft = <<DraftRecord(h)>>])
  /\ Resume(h, NewHandler(h.chat, "confirm", "clear"))
  /\ UNCHANGED <<chats, call, sheet, lastUpdate>>

\* The delivery step by step.  ConfirmDelivered is the delivery as a whole
\* when none of its replies fails; the three actions below follow it await
\* by await.  Document created and uploaded, the summary with the
\* approve / revise / report / download keyboard sent: the previews are next
ConfirmSummarySent(h) ==
  /\ h \in Handlers /\ h.kind = "confirm" /\ h.pc = "deliver"
  /\ Resume(h, [h EXCEPT !.pc = "preview"])
  /\ UNCHANGED <<chats, call, sheet, session, lastUpdate>>

\* the previews sent: ctx.session.lastDraft is assigned and processDraft
\* returns to the workflow
ConfirmPreviewsSent(h) ==
  /\ h \in Handlers /\ h.kind = "confirm" /\ h.pc = "preview"
  /\ SetSession(h.chat, [session[h.chat] EXCEPT !.lastDraft = <<DraftRecord(h)>>])
  /\ Resume(h, NewHandler(h.chat, "confirm", "clear"))
  /\ UNCHANGED <<chats, call, sheet, lastUpdate>>

\* the reply of a preview threw (Markdown that Telegram cannot parse, a
\* network error): processDraft's catch replies and rethrows before the
\* assignment of lastDraft, and the workflow catch replies
ConfirmPreviewFailed(h) ==
  /\ h \in Handlers /\ h.kind = "confirm" /\ h.pc = "preview"
  /\ Resume(h, NewHandler(h.chat, "confirm", "clear"))
  /\ UNCHANGED <<chats, call, sheet, session, lastUpdate>>

\* the workflow ended by the failure without the clearing of the session
ConfirmFailedUncleared(h) ==
  /\ h \in Handlers /\ h.kind = "confirm"
  /\ h.pc \in {"search", "generate", "plagiarism", "deliver"}
  /\ Finish(h)
  /\ UNCHANGED <<chats, call, sheet, session, lastUpdate>>

\* an awaited call of processDraft threw (its catch rethrows), or
\* processSources threw from its own catch: the workflow catch replies and
\* falls through to the clearing of the session
ConfirmFailed(h) ==
  /\ h \in Handlers /\ h.kind = "confirm"
  /\ h.pc \in {"search", "generate", "plagiarism", "deliver"}
  /\ Resume(h, NewHandler(h.chat, "confirm", "clear"))
  /\ UNCHANGED <<chats, call, sheet, session, lastUpdate>>

\* // Clear session
ConfirmClear(h) ==
  /\ h \in Handlers /\ h.kind = "confirm" /\ h.pc = "clear"
  /\ SetSession(h.chat, [session[h.chat] EXCEPT !.messages = <<>>,
                                                !.isAggregating = FALSE])
  /\ Finish(h)
  /\ UNCHANGED <<chats, call, sheet, lastUpdate>>

\* the reply before the workflow try, or the reply of the workflow catch,
\* threw: the outer catch answers and the clearing of the session is skipped
ConfirmAborted(h) ==
  /\ h \in Handlers /\ h.kind = "confirm" /\ h.pc \in {"search", "clear"}
  /\ Finish(h)
  /\ UNCHANGED <<chats, call, sheet, session, lastUpdate>>

\* -------------------------------------------------------------------- replies
\* A reply is sent by the step of the handler that calls ctx.reply.  The
\* updates whose handler calls ctx.reply before its first await: text (the
\* aggregation branch, not awaited), voice (not awaited), /cancel, the cancel
\* button and /sources (awaited)
RepliesOnDispatch == {"text", "voice", "/cancel", "cancel", "/sources"}

\* the handlers that call ctx.reply with the result of their adapter call
\* once it has returned
RepliesOnResult == {"photo", "voice"}

\* ------------------------------------------------------------ specifications
TextStep ==
  \/ \E c \in chats, b \in TextBodies : TextAggregate(c, b)
  \/ \E c \in chats, b \in TextBodies : TextRevision(c, b)
  \/ \E h \in Handlers : RevisionDone(h)
  \/ \E h \in Handlers : RevisionAborted(h)
  \/ \E c \in chats, b \in TextBodies : TextComment(c, b)
  \/ \E h \in Handlers : CommentDone(h)
  \/ \E h \in Handlers : CommentAborted(h)

MediaStep ==
  \/ \E c \in chats : Photo(c)
  \/ \E h \in Handlers : PhotoDone(h)
  \/ \E h \in Handlers : PhotoFailed(h)
  \/ \E c \in chats : Voice(c)
  \/ \E h \in Handlers, t \in Transcripts : VoiceDone(h, t)

ConfirmStep ==
  \/ \E c \in chats : CbConfirm(c)
  \/ \E h \in Handlers, b \in Batches : ConfirmSearchDone(h, b)
  \/ \E h \in Handlers : ConfirmGenerated(h)
  \/ \E h \in Handlers, r \in PlagiarismResponses : ConfirmPlagiarism(h, r)
  \/ \E h \in Handlers : ConfirmDelivered(h)
  \/ \E h \in Handlers : ConfirmFailed(h)
  \/ \E h \in Handlers : ConfirmClear(h)
  \/ \E h \in Handlers : ConfirmAborted(h)

SourcesStep ==
  \/ \E c \in chats : SourcesCmd(c)
  \/ \E h \in Handlers, b \in Batches : SourcesDone(h, b)
  \/ \E c \in chats, i \in Indexes : CbApproveSource(c, i)
  \/ \E c \in chats : CbApproveAll(c)
  \/ \E c \in chats : CbCancelSources(c)

FeedbackStep ==
  \/ \E c \in chats, d \in DraftIds, r \in Ratings : CbRate(c, d, r)
  \/ \E h \in Handlers : RateDone(h)
  \/ \E h \in Handlers : RateFailed(h)
  \/ \E c \in chats, d \in DraftIds : CbComment(c, d)
  \/ \E c \in chats : ReviseCmd(c)

ResetStep ==
  \/ \E c \in chats : CancelCmd(c)
  \/ \E c \in chats : CbCancel(c)

OtherStep ==
  \/ \E c \in chats, ut \in UserTypes : CbType(c, ut)
  \/ \E c \in chats : CbOther(c)
  \/ \E c \in chats : InfoCmd(c)

\* the whole bot; the claims are checked under the specifications of its
\* parts that follow, each with the handlers that write the fields at stake
Next ==
  \/ TextStep
  \/ MediaStep
  \/ ConfirmStep
  \/ SourcesStep
  \/ FeedbackStep
  \/ ResetStep
  \/ OtherStep

Spec == Init /\ [][Next]_vars

\* the intake of a request: aggregation, media, source search, cancellation
NextIntake ==
  \/ \E c \in chats, b \in TextBodies : TextAggregate(c, b)
  \/ MediaStep
  \/ \E c \in chats : SourcesCmd(c)
  \/ \E h \in Handlers, b \in Batches : SourcesDone(h, b)
  \/ ResetStep

SpecIntake == Init /\ [][NextIntake]_vars

\* the workflow behind the confirm button
NextWorkflow ==
  \/ \E c \in chats, b \in TextBodies : TextAggregate(c, b)
  \/ ConfirmStep
  \/ ResetStep

SpecWorkflow == Init /\ [][NextWorkflow]_vars

\* the source approval keyboard of /sources, by itself
NextApproval == SourcesStep

SpecApproval == Init /\ [][NextApproval]_vars

\* the source approval keyboard of /sources and the resets
NextSources ==
  \/ SourcesStep
  \/ ResetStep

SpecSources == Init /\ [][NextSources]_vars

\* the one-shot markers of /revise, the rating buttons and the comment button
NextFeedback ==
  \/ TextStep
  \/ FeedbackStep
  \/ MediaStep
  \/ ResetStep
  \/ OtherStep

SpecFeedback == Init /\ [][NextFeedback]_vars

\* a request from /start to the source search of the workflow: mode pick,
\* aggregation of text, the confirm button and the resets; of the draft
\* pipeline that follows the search only the failing path is taken here
NextRequest ==
  \/ OtherStep
  \/ \E c \in chats, b \in TextBodies : TextAggregate(c, b)
  \/ \E c \in chats : CbConfirm(c)
  \/ \E h \in Handlers, b \in Batches : ConfirmSearchDone(h, b)
  \/ \E h \in Handlers : ConfirmFailed(h)
  \/ \E h \in Handlers : ConfirmClear(h)
  \/ \E h \in Handlers : ConfirmAborted(h)
  \/ ResetStep

SpecRequest == Init /\ [][NextRequest]_vars

\* the aggregation of a request: the handlers that write messages and
\* isAggregating (text, photo, voice, the resets, the clearing at the end of
\* the confirm workflow) and the confirm button that reads them; the workflow
\* itself is followed on its failing path only, which writes no other field
NextAggregation ==
  \/ \E c \in chats, b \in TextBodies : TextAggregate(c, b)
  \/ MediaStep
  \/ \E c \in chats : CbConfirm(c)
  \/ \E h \in Handlers : ConfirmFailed(h)
  \/ \E h \in Handlers : ConfirmClear(h)
  \/ \E h \in Handlers : ConfirmAborted(h)
  \/ ResetStep

SpecAggregation == Init /\ [][NextAggregation]_vars

\* the confirm workflow while the plagiarism provider is down: every request
\* to it throws; all replies are delivered
NextPlagiarismDown ==
  \/ \E c \in chats, b \in TextBodies : TextAggregate(c, b)
  \/ \E c \in chats : CbConfirm(c)
  \/ \E h \in Handlers, b \in Batches : ConfirmSearchDone(h, b)
  \/ \E h \in Handlers : ConfirmGenerated(h)
  \/ \E h \in Handlers : ConfirmPlagiarism(h, RequestThrew)
  \/ \E h \in Handlers : ConfirmDelivered(h)
  \/ \E h \in Handlers : ConfirmFailed(h)
  \/ \E h \in Handlers : ConfirmClear(h)
  \/ \E c \in chats : CancelCmd(c)

SpecPlagiarismDown == Init /\ [][NextPlagiarismDown]_vars

\* the confirm workflow while the plagiarism provider gives no score: its
\* request throws or its response carries none; the replies and the
\* citation formatting around the check do not fail
NextNoScore ==
  \/ \E c \in chats, b \in TextBodies : TextAggregate(c, b)
  \/ \E c \in chats : CbConfirm(c)
  \/ \E h \in Handlers, b \in Batches : ConfirmSearchDone(h, b)
  \/ \E h \in Handlers : ConfirmGenerated(h)
  \/ \E h \in Handlers, r \in {0, RequestThrew} : ConfirmPlagiarism(h, r)
  \/ \E h \in Handlers : ConfirmDelivered(h)
  \/ \E h \in Handlers : h.pc # "plagiarism" /\ ConfirmFailed(h)
  \/ \E h \in Handlers : ConfirmClear(h)
  \/ \E c \in chats : CancelCmd(c)

SpecNoScore == Init /\ [][NextNoScore]_vars

\* the confirm workflow with its delivery followed await by await
NextDelivery ==
  \/ \E c \in chats, b \in TextBodies : TextAggregate(c, b)
  \/ \E c \in chats : CbConfirm(c)
  \/ \E h \in Handlers, b \in Batches : ConfirmSearchDone(h, b)
  \/ \E h \in Handlers : ConfirmGenerated(h)
  \/ \E h \in Handlers, r \in PlagiarismResponses : ConfirmPlagiarism(h, r)
  \/ \E h \in Handlers : ConfirmSummarySent(h)
  \/ \E h \in Handlers : ConfirmPreviewsSent(h)
  \/ \E h \in Handlers : ConfirmPreviewFailed(h)
  \/ \E h \in Handlers : ConfirmFailed(h)
  \/ \E h \in Handlers : ConfirmClear(h)

SpecDelivery == Init /\ [][NextDelivery]_vars

\* the one-shot handlers of free text while all replies are delivered: the
\* Groq call of the revision handler returns or throws
NextRevision ==
  \/ \E c \in chats, b \in TextBodies : TextAggregate(c, b)
  \/ \E c \in chats, b \in TextBodies : TextRevision(c, b)
  \/ \E h \in Handlers : RevisionDone(h)
  \/ \E c \in chats, b \in TextBodies : TextComment(c, b)
  \/ \E h \in Handlers : CommentDone(h)
  \/ \E c \in chats : ReviseCmd(c)
  \/ \E c \in chats, d \in DraftIds : CbComment(c, d)
  \/ ResetStep

SpecRevision == Init /\ [][NextRevision]_vars

\* one confirm workflow at a time while every request of generateDraft
\* exceeds its timeout of 60000 ms: axios rejects the request, generateDraft
\* throws, processDraft's catch replies and rethrows, the workflow catch
\* replies; all replies are delivered.  A handler that has been resumed runs
\* to its next await, and a request with a timeout settles.
NextDraftTimeout ==
  \/ \E c \in chats, b \in TextBodies : TextAggregate(c, b)
  \/ \E c \in chats : (~\E h \in Workflows : h.chat = c) /\ CbConfirm(c)
  \/ \E h \in Handlers, b \in Batches : ConfirmSearchDone(h, b)
  \/ \E h \in Handlers : ConfirmFailed(h)
  \/ \E h \in Handlers : ConfirmClear(h)
  \/ \E c \in chats, ut \in UserTypes : CbType(c, ut)

SpecDraftTimeout ==
  /\ Init
  /\ [][NextDraftTimeout]_vars
  /\ WF_vars(\E h \in Handlers : ConfirmFailed(h))
  /\ WF_vars(\E h \in Handlers : ConfirmClear(h))

\* two chats at a time: mode pick, aggregation of text and photos, and the
\* resets
NextTwoChats ==
  \/ \E c \in chats, ut \in UserTypes : CbType(c, ut)
  \/ \E c \in chats, b \in TextBodies : TextAggregate(c, b)
  \/ \E c \in chats : Photo(c)
  \/ \E h \in Handlers : PhotoDone(h)
  \/ \E h \in Handlers : PhotoFailed(h)
  \/ ResetStep

SpecTwoChats == TwoChatsInit /\ [][NextTwoChats]_vars

\* --------------------------------------------------------- deduplicateSources
\* sources.filter(...) with the Set seen: the elements whose key is not in
\* seen, each key added to seen as its first element is kept
RECURSIVE FilterUnseen(_, _)
FilterUnseen(sources, seen) ==
  IF sources = <<>> THEN <<>>
  ELSE LET source == Head(sources)
           key == IF source.doi # "" THEN source.doi ELSE source.title
       IN IF key \in seen
            THEN FilterUnseen(Tail(sources), seen)
            ELSE <<source>> \o FilterUnseen(Tail(sources), seen \cup {key})

\* the key taken from the title alone
RECURSIVE FilterUnseenTitle(_, _)
FilterUnseenTitle(sources, seen) ==
  IF sources = <<>> THEN <<>>
  ELSE LET source == Head(sources)
           key == source.title
       IN IF key \in seen
            THEN FilterUnseenTitle(Tail(sources), seen)
            ELSE <<source>> \o FilterUnseenTitle(Tail(sources), seen \cup {key})

deduplicateByTitle(sources) == FilterUnseenTitle(sources, {})

\* the last element of each key kept instead of the first
RECURSIVE Reversed(_)
Reversed(list) ==
  IF list = <<>> THEN <<>> ELSE Append(Reversed(Tail(list)), Head(list))

deduplicateKeepLast(sources) == Reversed(FilterUnseen(Reversed(sources), {}))

deduplicateSources(sources) == FilterUnseen(sources, {})

\* a caller holds a list of source records
DedupInit ==
  /\ BotInit
  /\ call \in {Call("deduplicateSources", l) :
                 l \in ListsUpTo(SourceRecords, MaxListLen)}

\* deduplicateSources(sources): filter returns a new array
Deduplicate ==
  /\ call.fn = "deduplicateSources"
  /\ call.out = <<>>
  /\ call' = [call EXCEPT !.out = <<deduplicateSources(call.arg)>>]
  /\ UNCHANGED <<chats, session, inflight, lastUpdate, sheet>>

\* deduplicateSources applied to the list it returned
DeduplicateAgain ==
  /\ call.fn = "deduplicateSources"
  /\ Len(call.out) = 1
  /\ call' = [call EXCEPT !.out = Append(@, deduplicateSources(@[1]))]
  /\ UNCHANGED <<chats, session, inflight, lastUpdate, sheet>>

NextDedup ==
  \/ Deduplicate
  \/ DeduplicateAgain

SpecDedup == DedupInit /\ [][NextDedup]_vars

\* ------------------------------------------------- errors of a handler's calls
\* The calls of a handler that can reject, in program order.  mode "await": the
\* call is awaited outside a try of the handler, a rejection leaves the
\* handler and reaches bot.catch; "try": awaited inside a try, a rejection
\* enters the catch block of the handler; "fire": the promise is not awaited,
\* the handler goes on and a rejection is handled by nobody.
Op(name, mode) == [call |-> name, mode |-> mode]

HandlerKinds ==
  {"start", "textAggregate", "revision", "comment", "photo", "voice",
   "cancelCmd", "callback"}

Body(kind) ==
  CASE kind = "start" -> <<Op("reply", "fire")>>
    [] kind = "textAggregate" -> <<Op("reply", "fire")>>
    [] kind = "revision" ->
         <<Op("reply", "await"), Op("groq", "try"), Op("reply", "try")>>
    [] kind = "comment" -> <<Op("reply", "await")>>
    [] kind = "photo" ->
         <<Op("getFile", "await"), Op("reply", "fire"),
           Op("performOCR", "await"), Op("reply", "fire")>>
    [] kind = "voice" -> <<Op("reply", "fire"), Op("reply", "fire")>>
    [] kind = "cancelCmd" -> <<Op("reply", "await")>>
    [] kind = "callback" ->
         <<Op("updateHistory", "try"), Op("reply", "try"),
           Op("answerCbQuery", "fire")>>

\* the catch block of the handler's try
CatchBlock(kind) ==
  IF kind \in {"revision", "callback"}
    THEN <<Op("reply", "await")>>
    ELSE <<>>

\* the part of the body that follows the try statement
AfterTry(kind) == IF kind = "callback" THEN 3 ELSE Len(Body(kind)) + 1

\* bot.catch((err, ctx) => { console.error(...); if (ctx) ctx.reply(...) })
BotCatch == <<Op("reply", "fire")>>

\* what the runtime does with a rejection nobody handles: raise it as an
\* uncaught exception (the default since Node.js 15) or print a warning
UnhandledRejectionModes == {"throw", "warn"}

Ops(kind, region) ==
  CASE region = "body" -> Body(kind)
    [] region = "catch" -> CatchBlock(kind)
    [] region = "botCatch" -> BotCatch

\* the call made at a place of the handler, and how it settled
Event(region, idx, op, ok) ==
  [region |-> region, idx |-> idx, call |-> op.call, mode |-> op.mode,
   ok |-> ok]

\* the place <<region, idx>> of the next call after the calls in log
Place(kind, region, idx) ==
  IF idx <= Len(Ops(kind, region)) THEN <<region, idx>>
  ELSE IF region = "catch" /\ AfterTry(kind) <= Len(Body(kind))
         THEN <<"body", AfterTry(kind)>>
         ELSE <<"end", 0>>

NextPlace(kind, log) ==
  IF log = <<>> THEN Place(kind, "body", 1)
  ELSE LET e == log[Len(log)] IN
       IF e.region = "process" THEN <<"end", 0>>
       ELSE IF e.ok \/ e.mode = "fire" THEN Place(kind, e.region, e.idx + 1)
       ELSE IF e.mode = "try" THEN Place(kind, "catch", 1)
       ELSE Place(kind, "botCatch", 1)

Unhandled(log) ==
  {i \in 1..Len(log) : log[i].mode = "fire" /\ ~log[i].ok}

\* an update of some kind is handed to its handler
ErrorsInit ==
  /\ BotInit
  /\ call \in {Call("handleUpdate", k) : k \in HandlerKinds}

\* the next call of the handler (or of bot.catch) is made and resolves or
\* rejects
MakeCall(ok) ==
  LET at == NextPlace(call.arg, call.out) IN
  /\ call.fn = "handleUpdate"
  /\ at[1] # "end"
  /\ call' = [call EXCEPT !.out =
                Append(@, Event(at[1], at[2], Ops(call.arg, at[1])[at[2]], ok))]
  /\ UNCHANGED <<chats, session, inflight, lastUpdate, sheet>>

\* the handling has ended with a rejection that nobody handles
UnhandledRejection(mode) ==
  /\ call.fn = "handleUpdate"
  /\ NextPlace(call.arg, call.out) = <<"end", 0>>
  /\ call.out # <<>>
  /\ call.out[Len(call.out)].region # "process"
  /\ Unhandled(call.out) # {}
  /\ call' = [call EXCEPT !.out =
                Append(@, Event("process", 0, Op("unhandledRejection", mode), FALSE))]
  /\ UNCHANGED <<chats, session, inflight, lastUpdate, sheet>>

NextErrors ==
  \/ \E ok \in BOOLEAN : MakeCall(ok)
  \/ \E mode \in UnhandledRejectionModes : UnhandledRejection(mode)

SpecErrors == ErrorsInit /\ [][NextErrors]_vars

\* -------------------------------------------------------------- validateData
\* the type argument: the three keys of schemas, a name that is no key, and
\* a name that schemas inherits from Object.prototype
ValidationTypes == {"intake", "source", "draft", "assignment", "constructor"}

\* messages of the details of a Joi validation error
JoiMessages == {"m1", "m2"}

\* what schema.validate(data, { abortEarly: false }) does with the data: it
\* returns a value, returns an error whose details are not empty, or throws
JoiOutcomes ==
  {[kind |-> k, details |-> <<>>] : k \in {"value", "throw"}}
    \cup {[kind |-> "error", details |-> d] :
            d \in ListsUpTo(JoiMessages, MaxListLen) \ {<<>>}}

\* schemas[type]; sourceSchema and draftSchema are imported and are undefined
\* when the module at hand does not export them
SchemaLookup(type, exported) ==
  CASE type = "intake" -> "schema"
    [] type \in {"source", "draft"} ->
         IF exported THEN "schema" ELSE "undefined"
    [] type = "constructor" -> "function"
    [] OTHER -> "undefined"

Returned(isValid, errors) ==
  [threw |-> FALSE, isValid |-> isValid, errors |-> errors]

Threw == [threw |-> TRUE, isValid |-> FALSE, errors |-> <<>>]

\* the version that throws on an unknown type and on a validation error
validateDataThrowing(type, exported, outcome) ==
  IF SchemaLookup(type, exported) # "schema" THEN Threw
  ELSE IF outcome.kind = "value" THEN Returned(TRUE, <<>>)
  ELSE Threw

validateData(type, exported, outcome) ==
  LET schema == SchemaLookup(type, exported) IN
  IF schema = "undefined"
    THEN Returned(FALSE, <<"Unknown validation type">>)
  \* schema.validate is not a function: the TypeError is caught
  ELSE IF schema = "function" \/ outcome.kind = "throw"
    THEN Returned(FALSE, <<"Validation failed">>)
  ELSE IF outcome.kind = "error"
    THEN Returned(FALSE, outcome.details)
  ELSE Returned(TRUE, <<>>)

ValidateInit ==
  /\ BotInit
  /\ call \in {Call("validateData",
                    [type |-> t, exported |-> e, outcome |-> o]) :
                 t \in ValidationTypes, e \in BOOLEAN, o \in JoiOutcomes}

Validate ==
  /\ call.fn = "validateData"
  /\ call.out = <<>>
  /\ call' = [call EXCEPT !.out =
                <<validateData(call.arg.type, call.arg.exported,
                               call.arg.outcome)>>]
  /\ UNCHANGED <<chats, session, inflight, lastUpdate, sheet>>

NextValidate == Validate

SpecValidate == ValidateInit /\ [][NextValidate]_vars

\* -------------------------------------------------------------- logToConsole
\* the argument of logToConsole: undefined, a value that is no object, or an
\* object whose fields are absent or hold a value of the kinds below
Absent == "absent"

TopicValues == {Absent, "Test request", ""}

UserTypeValues == {Absent, "student", "invalid"}

FormatValues == {Absent, "APA", "Harvard"}

\* the length is <<>> when absent and <<n>> when it is the number n
LengthValues == {<<>>, <<0>>, <<1>>, <<50>>, <<51>>}

DeadlineValues == {Absent, "2025-01-31", "tomorrow"}

NoFields ==
  [topic |-> Absent, userType |-> Absent, format |-> Absent,
   length |-> <<>>, deadline |-> Absent, chatId |-> FALSE]

IntakeArgs ==
  {[shape |-> s, fields |-> NoFields] : s \in {"undefined", "null"}}
    \cup {[shape |-> "object",
           fields |-> [topic |-> t, userType |-> u, format |-> f,
                       length |-> l, deadline |-> d, chatId |-> x]] :
            t \in TopicValues, u \in UserTypeValues, f \in FormatValues,
            l \in LengthValues, d \in DeadlineValues, x \in BOOLEAN}

\* the rules of intakeSchema on the fields of an object
TopicOk(t) == t \notin {Absent, ""}

UserTypeOk(u) == u \in {"tutor", "student", "mixed", "guest"}

FormatOk(f) == f \in {Absent, "APA", "MLA", "Chicago"}

LengthOk(l) == l = <<>> \/ (l[1] >= 1 /\ l[1] <= 50)

DeadlineOk(d) == d \in {Absent, "2025-01-31"}

\* intakeSchema.validate(data): TRUE when it returns an error. undefined
\* passes every schema that is not marked required, and the object schema
\* is not; keys that the schema does not name are not allowed
IntakeError(data) ==
  CASE data.shape = "undefined" -> FALSE
    [] data.shape = "null" -> TRUE
    [] OTHER ->
         LET f == data.fields IN
         ~(/\ TopicOk(f.topic) /\ UserTypeOk(f.userType)
           /\ FormatOk(f.format) /\ LengthOk(f.length)
           /\ DeadlineOk(f.deadline) /\ ~f.chatId)

\* reading value.userType throws when the validated value is undefined
logToConsole(data) ==
  IF IntakeError(data) THEN [threw |-> FALSE, result |-> FALSE]
  ELSE IF data.shape = "undefined" THEN [threw |-> TRUE, result |-> FALSE]
  ELSE [threw |-> FALSE, result |-> TRUE]

LogInit ==
  /\ BotInit
  /\ call \in {Call("logToConsole", d) : d \in IntakeArgs}

Log ==
  /\ call.fn = "logToConsole"
  /\ call.out = <<>>
  /\ call' = [call EXCEPT !.out = <<logToConsole(call.arg)>>]
  /\ UNCHANGED <<chats, session, inflight, lastUpdate, sheet>>

NextLog == Log

SpecLog == LogInit /\ [][NextLog]_vars

\* ------------------------------------------------ performOCR, transcribeVoice
\* what a provider's request does: it resolves with a response that holds
\* the text (possibly empty), resolves with a response that lacks the field
\* the code reads, or rejects
ProviderOutcomes(texts) ==
  {[kind |-> "response", text |-> t] : t \in texts}
    \cup {[kind |-> k, text |-> ""] : k \in {"malformed", "throw"}}

OcrTexts == {"Sample text", "Fallback text", ""}

VoiceTexts == {"Spoken request for paper", ""}

RequiresKeyMessage ==
  "Voice transcription requires Eden AI key - please type your request."

ErrorMessage == "Voice transcription error - please type your request."

Value(text) == [threw |-> FALSE, error |-> "none", text |-> text]

Rejected(error) == [threw |-> TRUE, error |-> error, text |-> ""]

\* performOCR without the catch block
performOCRPropagating(key, primary, secondary) ==
  IF key /\ primary.kind = "response"
    THEN Value(IF primary.text # "" THEN primary.text ELSE "OCR failed")
    ELSE Rejected("primary")

\* key: EDEN_AI_KEY is set; primary: the Eden AI request; secondary:
\* Tesseract.recognize, which the catch block awaits outside any try
performOCR(key, primary, secondary) ==
  IF key /\ primary.kind = "response"
    THEN Value(IF primary.text # "" THEN primary.text ELSE "OCR failed")
  ELSE IF secondary.kind = "response"
    THEN Value(secondary.text)
  ELSE Rejected("secondary")

\* transcribeVoice without its try/catch
transcribeVoiceUnguarded(getFile, key, provider) ==
  IF getFile.kind # "response" THEN Rejected("getFile")
  ELSE IF ~key THEN Value(RequiresKeyMessage)
  ELSE IF provider.kind # "response" THEN Rejected("provider")
  ELSE Value(IF provider.text # "" THEN provider.text
             ELSE "Transcription failed")

\* getFile: the Telegram file lookup; provider: the Eden AI request
transcribeVoice(getFile, key, provider) ==
  IF getFile.kind # "response" THEN Value(ErrorMessage)
  ELSE IF ~key THEN Value(RequiresKeyMessage)
  ELSE IF provider.kind # "response" THEN Value(ErrorMessage)
  ELSE Value(IF provider.text # "" THEN provider.text
             ELSE "Transcription failed")

AdaptersInit ==
  /\ BotInit
  /\ call \in
       {Call("performOCR", [key |-> k, primary |-> p, secondary |-> s]) :
          k \in BOOLEAN, p \in ProviderOutcomes(OcrTexts),
          s \in {o \in ProviderOutcomes(OcrTexts) : o.kind # "malformed"}}
       \cup
       {Call("transcribeVoice", [getFile |-> g, key |-> k, provider |-> p]) :
          g \in ProviderOutcomes({"voice.ogg"}), k \in BOOLEAN,
          p \in ProviderOutcomes(VoiceTexts)}

\* the photo handler awaits performOCR
OcrCall ==
  /\ call.fn = "performOCR"
  /\ call.out = <<>>
  /\ call' = [call EXCEPT !.out =
                <<performOCR(call.arg.key, call.arg.primary,
                             call.arg.secondary)>>]
  /\ UNCHANGED <<chats, session, inflight, lastUpdate, sheet>>

\* the voice handler awaits transcribeVoice
TranscribeCall ==
  /\ call.fn = "transcribeVoice"
  /\ call.out = <<>>
  /\ call' = [call EXCEPT !.out =
                <<transcribeVoice(call.arg.getFile, call.arg.key,
                                  call.arg.provider)>>]
  /\ UNCHANGED <<chats, session, inflight, lastUpdate, sheet>>

\* the handler pushes the tagged result; a rejected call ends the handler
\* before the push
PushResult(c) ==
  /\ call.fn \in {"performOCR", "transcribeVoice"}
  /\ call.out # <<>>
  /\ ~call.out[1].threw
  /\ session[c].messages = <<>>
  /\ SetSession(c, [session[c] EXCEPT !.messages =
       Append(@, <<IF call.fn = "performOCR" THEN "ocr" ELSE "voice",
                   call.out[1].text>>)])
  /\ UNCHANGED <<chats, inflight, lastUpdate, call, sheet>>

NextAdapters ==
  \/ OcrCall
  \/ TranscribeCall
  \/ \E c \in chats : PushResult(c)

SpecAdapters == AdaptersInit /\ [][NextAdapters]_vars

\* ------------------------------------------------------------- updateHistory
\* a row of the sheet: column A (the chat id) and column H (the history, a
\* JSON array); an entry of a history: what the caller passed, told apart by
\* a number, and its tags
Row(c, history) == [chatId |-> c, history |-> history]

Entry(id, tags) == [id |-> id, tags |-> tags]

\* rows.findIndex(row => row[0] === chatId.toString()), counted from 1, and
\* 0 when no row is found
RECURSIVE FindIndexFrom(_, _, _)
FindIndexFrom(rows, c, i) ==
  IF i > Len(rows) THEN 0
  ELSE IF rows[i].chatId = c THEN i
  ELSE FindIndexFrom(rows, c, i + 1)

RowIndex(rows, c) == FindIndexFrom(rows, c, 1)

\* a call of updateHistory suspended on a request to the sheet, with the
\* rows that its get returned
Updating(c, entry, pc, rows) ==
  [chat |-> c, kind |-> "updateHistory", pc |-> pc, entry |-> entry,
   rows |-> rows]

HistoryInit ==
  /\ BotInit
  /\ call = Call("updateHistory", <<>>)

\* updateHistory(chatId, entry, tags) is called and awaits values.get
UpdateHistoryCall(c) ==
  /\ call.fn = "updateHistory"
  /\ Len(call.arg) < MaxCalls
  /\ CanSuspend
  /\ LET entry == Entry(Len(call.arg) + 1, <<>>) IN
     /\ Suspend(Updating(c, entry, "get", <<>>))
     /\ call' = [call EXCEPT !.arg = Append(@, entry)]
  /\ UNCHANGED <<chats, session, lastUpdate, sheet>>

\* values.get returns the rows of the sheet; the call awaits its write
UpdateHistoryGot(h) ==
  /\ h \in Handlers /\ h.kind = "updateHistory" /\ h.pc = "get"
  /\ Resume(h, Updating(h.chat, h.entry, "write", sheet))
  /\ UNCHANGED <<chats, session, lastUpdate, call, sheet>>

\* the write: the history that was read, with the entry pushed, replaces
\* cell H of the row that was found; with no row found a row is appended
UpdateHistoryWritten(h) ==
  /\ h \in Handlers /\ h.kind = "updateHistory" /\ h.pc = "write"
  /\ LET rowIndex == RowIndex(h.rows, h.chat) IN
     sheet' =
       IF rowIndex > 0
         THEN [sheet EXCEPT ![rowIndex].history =
                 Append(h.rows[rowIndex].history, h.entry)]
         ELSE Append(sheet, Row(h.chat, <<h.entry>>))
  /\ call' = [call EXCEPT !.out = Append(@, h.entry)]
  /\ Finish(h)
  /\ UNCHANGED <<chats, session, lastUpdate>>

\* a request to the sheet threw: the catch block logs and alerts the admin
UpdateHistoryFailed(h) ==
  /\ h \in Handlers /\ h.kind = "updateHistory"
  /\ Finish(h)
  /\ UNCHANGED <<chats, session, lastUpdate, call, sheet>>

NextHistory ==
  \/ \E c \in chats : UpdateHistoryCall(c)
  \/ \E h \in Handlers :
       \/ UpdateHistoryGot(h)
       \/ UpdateHistoryWritten(h)
       \/ UpdateHistoryFailed(h)

SpecHistory == HistoryInit /\ [][NextHistory]_vars

\* ------------------------------------------------------- getAssignmentHistory
\* history.slice(-10)
HistoryLimit == 10

HistoryTags == {"", "t"}

\* the histories of up to n entries, numbered in the order they were pushed,
\* each with no tag or with the tag "t"
RECURSIVE HistoriesUpTo(_)
HistoriesUpTo(n) ==
  IF n = 0 THEN {<<>>}
  ELSE LET shorter == HistoriesUpTo(n - 1) IN
       shorter \cup
         {Append(h, Entry(n, tags)) :
            h \in {x \in shorter : Len(x) = n - 1},
            tags \in {<<>>, <<"t">>}}

\* history.filter(h => h.tags?.includes(tag))
HasTag(tag, e) == \E i \in 1..Len(e.tags) : e.tags[i] = tag

RECURSIVE FilterByTag(_, _)
FilterByTag(history, tag) ==
  IF history = <<>> THEN <<>>
  ELSE (IF HasTag(tag, Head(history)) THEN <<Head(history)>> ELSE <<>>)
         \o FilterByTag(Tail(history), tag)

\* array.slice(-n)
LastN(history, n) ==
  IF Len(history) <= n THEN history
  ELSE SubSeq(history, Len(history) - n + 1, Len(history))

\* rows: what values.get returns; ok: FALSE when the request throws
getAssignmentHistory(rows, chatId, tag, ok) ==
  IF ~ok \/ RowIndex(rows, chatId) = 0 THEN <<>>
  ELSE LET stored == rows[RowIndex(rows, chatId)].history
           history == IF tag # "" THEN FilterByTag(stored, tag) ELSE stored
       IN LastN(history, HistoryLimit)

ReadInit ==
  /\ chats = {"c1"}
  /\ session = [c \in Chats |-> DefaultSession]
  /\ inflight = EmptyBag
  /\ lastUpdate = [c \in Chats |-> Update("none", 0)]
  /\ sheet \in {<<Row("c1", h)>> : h \in HistoriesUpTo(MaxHistory)}
                 \cup {<<Row("c2", <<Entry(1, <<>>)>>), Row("c1", h)>> :
                         h \in HistoriesUpTo(MaxHistory)}
  /\ call \in {Call("getAssignmentHistory",
                    [chatId |-> "c1", tag |-> t, ok |-> ok]) :
                 t \in HistoryTags, ok \in BOOLEAN}

Read ==
  /\ call.fn = "getAssignmentHistory"
  /\ call.out = <<>>
  /\ call' = [call EXCEPT !.out =
                <<getAssignmentHistory(sheet, call.arg.chatId, call.arg.tag,
                                       call.arg.ok)>>]
  /\ UNCHANGED <<chats, session, inflight, lastUpdate, sheet>>

NextRead == Read

SpecRead == ReadInit /\ [][NextRead]_vars

\* ------------------------------------------------------------ processSources
\* rawSources.slice(0, 10)
SliceLimit == 10

\* source.year >= 2020
MinYear == 2020

\* the DOIs of a long search result, all different
LongDois ==
  <<"10.2/a", "10.2/b", "10.2/c", "10.2/d", "10.2/e", "10.2/f", "10.2/g",
    "10.2/h", "10.2/i", "10.2/j", "10.2/k", "10.2/l", "10.2/m">>

\* a paper of the Semantic Scholar response
RawRecords ==
  [doi : {"", "10.1/x", "10.1/y"}, title : {"t"}, year : {2019, 2020}]

\* a response of n recent papers with the DOIs above
LongResult(n) ==
  [i \in 1..n |-> [doi |-> LongDois[i], title |-> "t", year |-> 2020]]

\* what fetchSemanticScholar returns: response.data.data, which is an array
\* of papers ([] when the request failed) or, for a response of another
\* shape, a value that is no array
FetchResults ==
  {[kind |-> "array", raw |-> l] : l \in ListsUpTo(RawRecords, MaxListLen)}
    \cup {[kind |-> "array", raw |-> LongResult(n)] : n \in SliceLimit..MaxRaw}
    \cup {[kind |-> "malformed", raw |-> <<>>]}

\* the DOIs for which validateDOI returns the CrossRef record
ConfirmedSets ==
  (SUBSET {"10.1/x", "10.1/y"})
    \cup {{LongDois[i] : i \in DOMAIN LongDois}}

\* the sendMessage request of the catch block: not made without
\* ADMIN_CHAT_ID, else it resolves or rejects
AlertOutcomes == {"unconfigured", "sent", "throws"}

\* array.slice(0, n)
Take(list, n) == IF Len(list) <= n THEN list ELSE SubSeq(list, 1, n)

\* the loop of step 3: the papers with a DOI, a year from 2020 on, and a
\* DOI that validateDOI confirmed, as the records that are pushed
RECURSIVE ValidSources(_, _)
ValidSources(raw, confirmed) ==
  IF raw = <<>> THEN <<>>
  ELSE LET source == Head(raw)
           rest == ValidSources(Tail(raw), confirmed)
       IN IF source.doi # "" /\ source.year >= MinYear
             /\ source.doi \in confirmed
            THEN <<[title |-> source.title, year |-> source.year,
                    doi |-> source.doi]>> \o rest
            ELSE rest

\* step 5: every source gets the key that importToZotero returned, null
\* (here "") when the import failed
WithZotero(sources, imported) ==
  [i \in 1..Len(sources) |->
     [title |-> sources[i].title, year |-> sources[i].year,
      doi |-> sources[i].doi,
      zoteroKey |-> IF imported THEN "K" ELSE ""]]

\* fetched: what fetchSemanticScholar returned; rawSources.slice throws on a
\* value that is no array, and the catch block awaits the admin alert
\* before it returns []
processSources(fetched, confirmed, imported, alert) ==
  IF fetched.kind = "malformed"
    THEN IF alert = "throws"
           THEN [threw |-> TRUE, sources |-> <<>>]
           ELSE [threw |-> FALSE, sources |-> <<>>]
    ELSE [threw |-> FALSE,
          sources |->
            WithZotero(
              deduplicateSources(
                ValidSources(Take(fetched.raw, SliceLimit), confirmed)),
              imported)]

SourcesInit ==
  /\ BotInit
  /\ call \in {Call("processSources",
                    [fetched |-> f, confirmed |-> v, imported |-> z,
                     alert |-> a]) :
                 f \in FetchResults, v \in ConfirmedSets, z \in BOOLEAN,
                 a \in AlertOutcomes}

ProcessSources ==
  /\ call.fn = "processSources"
  /\ call.out = <<>>
  /\ call' = [call EXCEPT !.out =
                <<processSources(call.arg.fetched, call.arg.confirmed,
                                 call.arg.imported, call.arg.alert)>>]
  /\ UNCHANGED <<chats, session, inflight, lastUpdate, sheet>>

NextProcessSources == ProcessSources

SpecProcessSources == SourcesInit /\ [][NextProcessSources]_vars

\* ===================================================================== claims
Range(f) == {f[i] : i \in DOMAIN f}

\* a step that starts the handler of an update of the given kind for chat c:
\* the handler either ran to its end within the step or was suspended
IsDispatch(c, kind) ==
  /\ lastUpdate'[c].kind = kind
  /\ \/ inflight' = inflight
     \/ BagCardinality(inflight') > BagCardinality(inflight)

\* a step in which a suspended handler of chat c resumes
IsResume(c) ==
  /\ inflight' # inflight
  /\ BagCardinality(inflight') <= BagCardinality(inflight)
  /\ \E h \in Handlers : h.chat = c /\ CopiesIn(h, inflight') < CopiesIn(h, inflight)

Idle(s) == ~s.isAggregating /\ s.messages = <<>>

WaitingFor(s) == s.waitingForRevision \/ s.waitingForComment # ""

\* C1: as long as /cancel is the most recent update of a chat, the session of
\* the chat is idle with empty aggregated input, also after the adapter calls
\* that were in flight when /cancel arrived have completed.
C1_CancelLeavesIdle ==
  \A c \in chats : lastUpdate[c].kind = "/cancel" => Idle(session[c])

\* C2: while /cancel is the most recent update of a chat, a handler of the
\* chat that resumes from a call started before the cancel writes neither
\* approvedSources nor pendingSources nor lastDraft.
C2_StaleResultDiscarded ==
  [][\A c \in chats :
       (lastUpdate[c].kind = "/cancel" /\ IsResume(c))
         => /\ session'[c].approvedSources = session[c].approvedSources
            /\ session'[c].pendingSources = session[c].pendingSources
            /\ session'[c].lastDraft = session[c].lastDraft]_vars

C4_RetryCapped ==
  \A h \in Handlers : h.kind = "confirm" => h.rewrites <= 2

\* C5: when the first plagiarism score is above the threshold and the second
\* is not, two drafts are generated and the draft stored as lastDraft (the one
\* packaged and uploaded) has the content of the second generateDraft call.
C5_SecondDraftDelivered ==
  /\ \A h \in Handlers :
       (h.kind = "confirm" /\ h.pc = "deliver" /\ h.rewrites = 1)
         => h.content = 2
  /\ \A c \in chats :
       (session[c].lastDraft # NoDraft /\ session[c].lastDraft[1].rewrites = 1)
         => /\ session[c].lastDraft[1].content = 2
            /\ ~NeedsRewrite(session[c].lastDraft[1].plagiarismScore)

C5_Witness ==
  \E c \in chats :
    /\ session[c].lastDraft # NoDraft
    /\ session[c].lastDraft[1].rewrites = 1
    /\ session[c].lastDraft[1].content = 2

\* C6: a step of the confirm workflow taken while the session is not in the
\* collecting phase (the button was pressed outside collecting, or the
\* session was reset since) leaves approvedSources, lastDraft and userType
\* unchanged.
C6_PhaseIsolation ==
  [][\A c \in chats :
       (~session[c].isAggregating /\ IsResume(c)
          /\ \E h \in Handlers : h.chat = c /\ h.kind = "confirm")
         => /\ session'[c].approvedSources = session[c].approvedSources
            /\ session'[c].lastDraft = session[c].lastDraft
            /\ session'[c].userType = session[c].userType]_vars

\* C7: approve_source_<i> with i not an index of the pending batch changes no
\* field of the session.
C7_StaleIndexIgnored ==
  [][\A c \in chats :
       (IsDispatch(c, "approve_source")
          /\ ~HasIndex(session[c].pendingSources, lastUpdate'[c].arg))
         => session'[c] = session[c]]_vars

\* a stale index was pressed while a batch is pending and a source approved
C7_Witness ==
  \E c \in chats :
    /\ lastUpdate[c] = Update("approve_source", 7)
    /\ session[c].pendingSources # <<>>
    /\ session[c].approvedSources # <<>>

\* C8: session.messages is non-empty only while isAggregating is true.
C8_FragmentsOnlyWhileAggregating ==
  \A c \in chats : session[c].messages # <<>> => session[c].isAggregating

\* C9: a text message dispatched while a waitingFor marker is set is handed
\* to a one-shot handler (revision or comment); neither its dispatch nor the
\* completion of the one-shot handler changes messages or isAggregating.
C9_WaitingForPreempts ==
  [][\A c \in chats :
       /\ (IsDispatch(c, "text") /\ WaitingFor(session[c]))
            => /\ session'[c].messages = session[c].messages
               /\ session'[c].isAggregating = session[c].isAggregating
               /\ \E h \in BagToSet(inflight') :
                    /\ h.chat = c /\ h.kind \in {"revision", "comment"}
                    /\ CopiesIn(h, inflight') = CopiesIn(h, inflight) + 1
       /\ \A h \in Handlers :
            (h.chat = c /\ h.kind \in {"revision", "comment"}
               /\ CopiesIn(h, inflight') < CopiesIn(h, inflight))
              => /\ session'[c].messages = session[c].messages
                 /\ session'[c].isAggregating = session[c].isAggregating]_vars

\* a text message was taken by the revision handler during an aggregation
C9_Witness ==
  \E h \in Handlers :
    /\ h.kind \in {"revision", "comment"}
    /\ lastUpdate[h.chat].kind = "text"
    /\ session[h.chat].isAggregating
    /\ session[h.chat].messages # <<>>

C12_ScenarioA ==
  [][\A c \in chats :
       LET s == session[c] IN
       /\ IsDispatch(c, "command") => session'[c] = s
       /\ IsDispatch(c, "type")
            => \E ut \in UserTypes : session'[c] = [s EXCEPT !.userType = ut]
       /\ (IsDispatch(c, "text")
             /\ \E ut \in UserTypes : s = [DefaultSession EXCEPT !.userType = ut])
            => \E b \in TextBodies :
                 session'[c] = [s EXCEPT !.isAggregating = TRUE,
                                         !.messages = <<TextFrag(b)>>]
       /\ (IsDispatch(c, "confirm") /\ s.isAggregating /\ Len(s.messages) = 1)
            => /\ session'[c] = s
               /\ \E h \in BagToSet(inflight') :
                    /\ h.chat = c /\ h.kind = "confirm" /\ h.pc = "search"
                    /\ h.topic = s.messages
                    /\ CopiesIn(h, inflight') = CopiesIn(h, inflight) + 1]_vars

\* the student's request [T] is being searched and is still the session's
\* aggregated input
C12_Witness ==
  \E h \in Handlers :
    /\ h.kind = "confirm" /\ h.pc = "search"
    /\ h.topic = <<TextFrag("a")>>
    /\ lastUpdate[h.chat].kind = "confirm"
    /\ session[h.chat] = [DefaultSession EXCEPT !.userType = "student",
                                                !.isAggregating = TRUE,
                                                !.messages = <<TextFrag("a")>>]

\* a step in which a suspended handler of chat c of the given kind ends or
\* moves on
Resumes(c, kind) ==
  \E h \in Handlers :
    /\ h.chat = c /\ h.kind = kind
    /\ CopiesIn(h, inflight') < CopiesIn(h, inflight)

\* the steps that end the aggregation of chat c: /cancel, the cancel button,
\* and the clearing of the session at the end of the confirm workflow
EndsAggregation(c) ==
  \/ IsDispatch(c, "/cancel")
  \/ IsDispatch(c, "cancel")
  \/ Resumes(c, "confirm")

C14_ApprovalBeforeDrafting ==
  [][\A c \in chats :
       LET searchReturns ==
             \E h \in Handlers :
               /\ h.chat = c /\ h.kind = "confirm" /\ h.pc = "search"
               /\ CopiesIn(h, inflight') < CopiesIn(h, inflight)
           draftingStarts ==
             \E h \in BagToSet(inflight') :
               /\ h.chat = c /\ h.kind = "confirm" /\ h.pc = "generate"
               /\ CopiesIn(h, inflight') > CopiesIn(h, inflight)
       IN searchReturns
            => /\ ~draftingStarts
               /\ session'[c].approvedSources = session[c].approvedSources]_vars

\* C15: /cancel, the cancel button and the clearing of the session at the end
\* of the confirm workflow each leave the session equal to a fresh default
\* session.
C15_ResetToDefaults ==
  [][\A c \in chats :
       /\ (IsDispatch(c, "/cancel") \/ IsDispatch(c, "cancel"))
            => session'[c] = DefaultSession
       /\ (\E h \in Handlers :
             /\ h.chat = c /\ h.kind = "confirm" /\ h.pc = "clear"
             /\ CopiesIn(h, inflight') < CopiesIn(h, inflight)
             /\ Idle(session'[c]))
            => session'[c] = DefaultSession]_vars

\* the key of a source record: its doi when present, otherwise its title
DoiElseTitle(r) == IF r.doi = "" THEN r.title ELSE r.doi

DistinctKeys(list) ==
  \A i, j \in 1..Len(list) :
    i # j => DoiElseTitle(list[i]) # DoiElseTitle(list[j])

\* C16: deduplicateSources applied to its own result returns that result,
\* and applied to a list whose doi-else-title keys are pairwise distinct it
\* returns the list.
C16_DedupIdempotent ==
  call.fn = "deduplicateSources" =>
    /\ Len(call.out) = 2 => call.out[2] = call.out[1]
    /\ (Len(call.out) >= 1 /\ DistinctKeys(call.arg)) => call.out[1] = call.arg

\* a list with a duplicate was deduplicated twice
C16_Witness ==
  /\ call.fn = "deduplicateSources"
  /\ Len(call.out) = 2
  /\ Len(call.out[1]) = 2
  /\ Len(call.arg) = 3

\* the elements of list at the indexes in idx, in ascending order of index
PickInOrder(list, idx) ==
  LET n == Cardinality(idx)
      at == CHOOSE f \in [1..n -> idx] :
              \A a, b \in 1..n : a < b => f[a] < f[b]
  IN [k \in 1..n |-> list[at[k]]]

\* the first record of each key group, in the order of the list
FirstOccurrences(list) ==
  PickInOrder(list,
    {i \in 1..Len(list) :
       \A j \in 1..(i - 1) : DoiElseTitle(list[j]) # DoiElseTitle(list[i])})

\* C17: deduplicateSources returns the first record of each doi-else-title
\* key group of its argument, in the argument's order, and the argument is
\* the same list after the call as before.
C17_DedupFirstOccurrences ==
  [][(call'.fn = "deduplicateSources" /\ call'.out # <<>>)
       => /\ call'.out[1] = FirstOccurrences(call.arg)
          /\ call'.arg = call.arg]_vars

\* three records of which the first and the third share a doi: the first two
\* are returned
C17_Witness ==
  /\ call.fn = "deduplicateSources"
  /\ Len(call.arg) = 3
  /\ call.arg[1].doi = "10.1/x" /\ call.arg[3].doi = "10.1/x"
  /\ call.arg[1] # call.arg[3]
  /\ call.out # <<>>
  /\ call.out[1] = <<call.arg[1], call.arg[2]>>

\* C18: at most one handler of a chat is suspended on an awaited call at any
\* time, so that no later update of the chat is handled before it completes.
C18_OneHandlerPerChat ==
  \A c \in chats : SumCopies({h \in Handlers : h.chat = c}) <= 1

\* a step that is, or belongs to, an event of chat c: an update of the chat
\* is dispatched, a handler of the chat is suspended, resumes or ends, or the
\* session of the chat is written
Touched(c) ==
  \/ lastUpdate'[c] # lastUpdate[c]
  \/ session'[c] # session[c]
  \/ \E h \in Handlers \cup BagToSet(inflight') :
       h.chat = c /\ CopiesIn(h, inflight') # CopiesIn(h, inflight)

\* C19: a step of a handler of one chat leaves the session of every other
\* chat unchanged, whatever handlers of the two chats are interleaved.
C19_ChatPartition ==
  [][\A a, b \in chats : (a # b /\ Touched(a)) => session'[b] = session[b]]_vars

\* handlers of both chats are suspended and both sessions hold fragments
C19_Witness ==
  /\ \E h \in Handlers : h.chat = "c1"
  /\ \E h \in Handlers : h.chat = "c2"
  /\ session["c1"].messages # <<>>
  /\ session["c2"].messages # <<>>
  /\ lastUpdate["c2"].kind = "cancel"

\* C20: when a handler sends the reply that follows its adapter call, no
\* update of the chat that came after the handler's own has been handled and
\* answered: the replies of a chat go out in the order of their updates.
C20_RepliesInEventOrder ==
  [][\A c \in chats : \A h \in Handlers :
       (/\ h.chat = c /\ h.kind \in RepliesOnResult
        /\ CopiesIn(h, inflight') < CopiesIn(h, inflight)
        /\ session'[c].messages # session[c].messages)
         => ~(/\ lastUpdate[c].kind \in RepliesOnDispatch
              /\ lastUpdate[c].kind # h.kind)]_vars

\* C21: every call that rejects while an update is handled is caught by the
\* handler's own catch or by bot.catch, and the process is never brought down.
C21_ErrorsCaught ==
  call.fn = "handleUpdate" =>
    \A i \in 1..Len(call.out) :
      /\ ~call.out[i].ok => call.out[i].mode \in {"await", "try"}
      /\ ~(call.out[i].region = "process" /\ call.out[i].mode = "throw")

\* the number of confirm workflows of chat c among the handlers in bag
RECURSIVE CountIn(_, _)
CountIn(hs, bag) ==
  IF hs = {} THEN 0
  ELSE LET h == CHOOSE x \in hs : TRUE
       IN CopiesIn(h, bag) + CountIn(hs \ {h}, bag)

WorkflowsOf(c, bag) ==
  CountIn({h \in BagToSet(bag) : h.chat = c /\ h.kind = "confirm"}, bag)

\* C22: while the plagiarism provider is down and the replies are delivered,
\* a workflow that has called the provider takes the failure path (error
\* message, operator alert, clearing of the session) and does not go on to
\* package a draft; and a workflow ends only with the session idle.
C22_AdapterFailureReported ==
  [][\A c \in chats :
       /\ WorkflowsOf(c, inflight') < WorkflowsOf(c, inflight)
            => Idle(session'[c])
       /\ \A h \in Handlers :
            (/\ h.chat = c /\ h.kind = "confirm" /\ h.pc = "plagiarism"
             /\ CopiesIn(h, inflight') < CopiesIn(h, inflight))
              => ~\E g \in BagToSet(inflight') :
                    /\ g.chat = c /\ g.kind = "confirm" /\ g.pc = "deliver"
                    /\ CopiesIn(g, inflight') > CopiesIn(g, inflight)]_vars

\* C23: validateData returns for every type and every outcome of the schema
\* validation, and what it returns is valid without errors or invalid with
\* at least one message.
C23_ValidateNeverThrows ==
  (call.fn = "validateData" /\ call.out # <<>>) =>
    LET r == call.out[1] IN
    /\ ~r.threw
    /\ \/ r.isValid /\ r.errors = <<>>
       \/ ~r.isValid /\ r.errors # <<>>

\* an intake record with two violations was validated
C23_Witness ==
  /\ call.fn = "validateData"
  /\ call.arg.type = "intake"
  /\ call.out # <<>>
  /\ ~call.out[1].isValid
  /\ Len(call.out[1].errors) = 2

\* the intake schema as the claim states it
SatisfiesIntake(data) ==
  /\ data.shape = "object"
  /\ data.fields.topic \notin {Absent, ""}
  /\ data.fields.userType \in {"tutor", "student", "mixed", "guest"}
  /\ data.fields.format \in {Absent, "APA", "MLA", "Chicago"}
  /\ data.fields.length \in {<<>>} \cup {<<n>> : n \in 1..50}
  /\ data.fields.deadline \in {Absent, "2025-01-31"}
  /\ ~data.fields.chatId

\* C24: logToConsole returns true exactly when its argument satisfies the
\* intake schema, and returns false without throwing otherwise.
C24_LogIffSchema ==
  (call.fn = "logToConsole" /\ call.out # <<>>) =>
    /\ ~call.out[1].threw
    /\ call.out[1].result <=> SatisfiesIntake(call.arg)

\* the primary OCR provider is not configured, or its call failed
PrimaryDown(arg) == ~arg.key \/ arg.primary.kind # "response"

TranscriptionDown(arg) ==
  \/ arg.getFile.kind # "response"
  \/ ~arg.key
  \/ arg.provider.kind # "response"

\* C26: transcribeVoice never throws; when the file lookup or the provider
\* fails or the provider is not configured it returns an instructional
\* message, and the voice handler appends the returned string.
C26_TranscribeNeverThrows ==
  (call.fn = "transcribeVoice" /\ call.out # <<>>) =>
    /\ ~call.out[1].threw
    /\ TranscriptionDown(call.arg) =>
         call.out[1].text \in
           {"Voice transcription requires Eden AI key - please type your request.",
            "Voice transcription error - please type your request."}
    /\ \A c \in chats :
         session[c].messages # <<>> =>
           session[c].messages = <<(<<"voice", call.out[1].text>>)>>

\* the provider's request failed and the handler pushed the error message
C26_Witness ==
  /\ call.fn = "transcribeVoice"
  /\ call.arg.key
  /\ call.arg.getFile.kind = "response"
  /\ call.arg.provider.kind = "throw"
  /\ session["c1"].messages =
       <<(<<"voice", "Voice transcription error - please type your request.">>)>>

\* the history of the chat as a reader finds it: column H of the first row
\* of the chat
StoredHistory(c) ==
  IF RowIndex(sheet, c) = 0 THEN <<>> ELSE sheet[RowIndex(sheet, c)].history

IsWritten(e) == e \in Range(call.out)

\* C27: when no call of updateHistory is under way, the stored history of
\* the chat holds one entry per successful call, in the order of the calls.
C27_HistoryAppendOnly ==
  (call.fn = "updateHistory" /\ inflight = EmptyBag) =>
    \A c \in chats : StoredHistory(c) = SelectSeq(call.arg, IsWritten)

CarriesReadTag(e) == call.arg.tag \in Range(e.tags)

\* C28: a successful read of a chat's history returns the full list of the
\* chat's entries in order or, with a tag, exactly the entries that carry
\* the tag, in their original order.
C28_ReadFullHistory ==
  (call.fn = "getAssignmentHistory" /\ call.out # <<>> /\ call.arg.ok) =>
    call.out[1] =
      IF call.arg.tag = "" THEN StoredHistory(call.arg.chatId)
      ELSE SelectSeq(StoredHistory(call.arg.chatId), CarriesReadTag)

\* a confirm workflow of the chat awaits generateDraft
AwaitsDraft(c) ==
  \E h \in Handlers : h.chat = c /\ h.kind = "confirm" /\ h.pc = "generate"

\* C29: a workflow whose draft generation exceeds its timeout ends: it takes
\* the failure path, whose steps send the failure messages, and leaves the
\* session without aggregated input and not aggregating.
C29_TimeoutEndsWorkflow ==
  \A c \in Chats :
    AwaitsDraft(c) ~>
      (/\ WorkflowsOf(c, inflight) = 0
       /\ session[c].messages = <<>>
       /\ ~session[c].isAggregating)

\* the search returned sources, the draft generation timed out and the
\* workflow is on its failure path
C29_Witness ==
  \E h \in Handlers :
    /\ h.kind = "confirm" /\ h.pc = "clear"
    /\ session[h.chat].approvedSources # <<>>
    /\ session[h.chat].messages # <<>>

\* C30: a text message that arrives while the session waits for revision
\* text starts exactly one revision handler (one call of the adapter) and
\* writes nothing; when the handler ends, after the adapter returned or
\* threw, the revision marker is cleared and no other field of the session,
\* the aggregated input included, is touched; a session that was not also
\* waiting for a comment then waits for nothing.
C30_RevisionClearsMarker ==
  [][\A c \in chats :
       /\ (IsDispatch(c, "text") /\ session[c].waitingForRevision)
            => /\ session' = session
               /\ BagCardinality(inflight') = BagCardinality(inflight) + 1
               /\ \E h \in BagToSet(inflight') :
                    /\ h.chat = c /\ h.kind = "revision"
                    /\ CopiesIn(h, inflight') = CopiesIn(h, inflight) + 1
       /\ Resumes(c, "revision")
            => /\ session'[c] =
                    [session[c] EXCEPT !.waitingForRevision = FALSE]
               /\ session[c].waitingForComment = ""
                    => ~WaitingFor(session'[c])]_vars

\* a text was consumed by the revision handler, which has ended: the
\* revision marker is cleared and the aggregated input is as it was (the
\* comment marker still set tells this text from one taken as a comment)
C30_Witness ==
  \E c \in chats :
    /\ lastUpdate[c].kind = "text"
    /\ inflight = EmptyBag
    /\ ~session[c].waitingForRevision
    /\ session[c].waitingForComment # ""
    /\ session[c].messages # <<>>

\* a step in which the confirm button of chat c starts a workflow, whose
\* first awaited adapter call is the source search
StartsSearch(c) ==
  /\ IsDispatch(c, "confirm")
  /\ \E h \in BagToSet(inflight') :
       /\ h.chat = c /\ h.kind = "confirm" /\ h.pc = "search"
       /\ CopiesIn(h, inflight') = CopiesIn(h, inflight) + 1

\* C31: the confirm button starts a source search only when the session is
\* collecting and holds at least one aggregated fragment.
C31_ConfirmOnlyWhenCollecting ==
  [][\A c \in chats :
       StartsSearch(c) =>
         /\ session[c].isAggregating
         /\ session[c].messages # <<>>]_vars

\* C32: a workflow that has shown the draft-complete keyboard (it is sending
\* the previews) stores its draft as lastDraft of the chat in the step in
\* which it leaves the drafting, whether or not the previews were sent.
C32_KeyboardImpliesLastDraft ==
  [][\A h \in Handlers :
       (/\ h.kind = "confirm" /\ h.pc = "preview"
        /\ CopiesIn(h, inflight') < CopiesIn(h, inflight))
         => session'[h.chat].lastDraft = <<DraftRecord(h)>>]_vars

\* C33: processSources does not throw, and every source it returns has a
\* DOI, a year of 2020 or later and a DOI that the validation confirmed; no
\* two returned sources have the same key; at most 10 are returned.
C33_ProcessSourcesContract ==
  (call.fn = "processSources" /\ call.out # <<>>) =>
    LET r == call.out[1] IN
    /\ ~r.threw
    /\ Len(r.sources) <= 10
    /\ \A i \in 1..Len(r.sources) :
         /\ r.sources[i].doi # ""
         /\ r.sources[i].year >= 2020
         /\ r.sources[i].doi \in call.arg.confirmed
    /\ \A i, j \in 1..Len(r.sources) :
         i # j => r.sources[i].doi # r.sources[j].doi

\* C34: the plagiarism score of a stored lastDraft is at or below the
\* threshold, and so is the score of every draft that a workflow is
\* packaging, uploading and delivering.
C34_QualityGate ==
  /\ \A c \in chats :
       session[c].lastDraft # NoDraft =>
         session[c].lastDraft[1].plagiarismScore <= PlagiarismThreshold
  /\ \A h \in Handlers :
       (h.kind = "confirm" /\ h.pc = "deliver") =>
         h.score <= PlagiarismThreshold

\* a draft was stored whose score is exactly the threshold, after a draft
\* above the threshold had been rewritten
C34_Witness ==
  \E c \in chats :
    /\ session[c].lastDraft # NoDraft
    /\ session[c].lastDraft[1].plagiarismScore = PlagiarismThreshold
    /\ session[c].lastDraft[1].rewrites >= 1

\* C35: when the plagiarism request fails or its response has no score, the
\* workflow that awaited the check goes on to the document creation with
\* score 0 and the same draft: no regeneration, no failure path.
C35_NoScorePassesGate ==
  [][\A h \in Handlers :
       (/\ h.kind = "confirm" /\ h.pc = "plagiarism"
        /\ CopiesIn(h, inflight') < CopiesIn(h, inflight))
         => LET g == [h EXCEPT !.pc = "deliver", !.score = 0] IN
            CopiesIn(g, inflight') = CopiesIn(g, inflight) + 1]_vars

\* a draft whose check gave no score is being packaged with score 0
C35_Witness ==
  \E h \in Handlers :
    /\ h.kind = "confirm" /\ h.pc = "deliver"
    /\ h.score = 0 /\ h.content = 1 /\ h.rewrites = 0

Acknowledgements ==
  {i \in 1..Len(call.out) : call.out[i].call = "answerCbQuery"}

\* C38: when the handling of a callback query has ended, answerCbQuery has
\* been called exactly once, whichever calls of the branch failed.
C38_AcknowledgedOnce ==
  (/\ call.fn = "handleUpdate"
   /\ call.arg = "callback"
   /\ NextPlace(call.arg, call.out) = <<"end", 0>>)
    => Cardinality(Acknowledgements) = 1

====
